---- MODULE Spec2Model ----
(***************************************************************************)
(* gitmoji-rs: the layered configuration (persisted global config, local   *)
(* override), the remote catalog refresh and the commit title formatting.  *)
(* One CLI invocation runs at a time; every await on the network, on the   *)
(* user's terminal or on the git subprocess is a step boundary.            *)
(***************************************************************************)
EXTENDS Integers, Sequences, FiniteSets, TLC

(***************************************************************************)
(* Bounds of the model.                                                    *)
(***************************************************************************)
\* number of CLI invocations in one behaviour (the clock ticks once per invocation)
MaxRuns == 2

(***************************************************************************)
(* Option<T>, Result<T>.                                                   *)
(***************************************************************************)
None == [some |-> FALSE]
Some(v) == [some |-> TRUE, val |-> v]
Ok(v) == [ok |-> TRUE, val |-> v]
Err(e) == [ok |-> FALSE, err |-> e]

(***************************************************************************)
(* model.rs: constants, enums.                                             *)
(***************************************************************************)
DEFAULT_URL == "https://gitmoji.dev/api/gitmojis"
CONVENTIONAL_EMOJI_COMMITS_DEFAULT_URL == "https://gist.githubusercontent.com/conventional-emoji-commits-types.json"
\* a URL the user types in place of the default one
CustomUrl == "https://example.com/x.json"

CommitSpecification == {"Default", "ConventionalEmojiCommits"}
EmojiFormat == {"UseCode", "UseEmoji"}

ConfigFields == {"auto_add", "specification", "format", "signed", "scope", "update_url",
                 "last_update", "gitmojis", "conventional_commit_emojis"}
LocalFields == {"auto_add", "specification", "format", "signed", "scope",
                "gitmojis", "conventional_commit_emojis"}

(***************************************************************************)
(* model.rs: catalog entries. Glyphs are written as bracketed names.       *)
(***************************************************************************)
Gitmoji_new(emoji, code, name, description) ==
    [emoji |-> emoji, code |-> code, name |-> name, description |-> description]

ConventionalEmojiCommit_new(emoji, code, type, description) ==
    [emoji |-> emoji, code |-> code, type |-> type, description |-> description]

G_art == Gitmoji_new("[art]", ":art:", Some("art"), Some("Improve structure"))
G_sparkles == Gitmoji_new("[sparkles]", ":sparkles:", None, None)
G_rocket == Gitmoji_new("[rocket]", "rocket", Some("Initialize"), Some("Bla bla"))

C_feat == ConventionalEmojiCommit_new("[sparkles]", ":sparkles:", "feat", Some("A new feature"))
C_fix == ConventionalEmojiCommit_new("[bug]", ":bug:", "fix", None)
C_docs == ConventionalEmojiCommit_new("[art]", ":art:", "docs", Some("Documentation"))

(***************************************************************************)
(* model.rs: GitmojiConfig.                                                *)
(***************************************************************************)
GitmojiConfig_new(auto_add, specification, format, signed, scope, update_url) ==
    [auto_add |-> auto_add, specification |-> specification, format |-> format,
     signed |-> signed, scope |-> scope, update_url |-> update_url,
     last_update |-> None, gitmojis |-> <<>>, conventional_commit_emojis |-> <<>>]

GitmojiConfig_default ==
    [auto_add |-> FALSE, specification |-> "Default", format |-> "UseCode",
     signed |-> FALSE, scope |-> FALSE, update_url |-> DEFAULT_URL,
     last_update |-> None, gitmojis |-> <<>>, conventional_commit_emojis |-> <<>>]

\* LocalGitmojiConfig::default(): every field absent
LocalGitmojiConfig_default == [k \in LocalFields |-> None]

\* a merge that also takes the override's specification and scope
merge_all_fields(self, local_config) ==
    [k \in ConfigFields |->
        IF k \in LocalFields /\ local_config[k].some THEN local_config[k].val ELSE self[k]]

\* a merge that appends an override's sequences to the global ones
merge_append(self, local_config) ==
    [k \in ConfigFields |->
        IF k \in {"auto_add", "format", "signed"} /\ local_config[k].some
            THEN local_config[k].val
        ELSE IF k \in {"gitmojis", "conventional_commit_emojis"} /\ local_config[k].some
            THEN self[k] \o local_config[k].val
        ELSE self[k]]

\* a merge that drops the global sequences when the override carries none
merge_clear_absent(self, local_config) ==
    [k \in ConfigFields |->
        IF k \in {"auto_add", "format", "signed"} /\ local_config[k].some
            THEN local_config[k].val
        ELSE IF k \in {"gitmojis", "conventional_commit_emojis"}
            THEN (IF local_config[k].some THEN local_config[k].val ELSE <<>>)
        ELSE self[k]]

\* GitmojiConfig::merge: five fields are taken from the override when present
merge(self, local_config) ==
    [self EXCEPT
        !.auto_add = IF local_config.auto_add.some THEN local_config.auto_add.val ELSE @,
        !.format = IF local_config.format.some THEN local_config.format.val ELSE @,
        !.signed = IF local_config.signed.some THEN local_config.signed.val ELSE @,
        !.gitmojis = IF local_config.gitmojis.some THEN local_config.gitmojis.val ELSE @,
        !.conventional_commit_emojis =
            IF local_config.conventional_commit_emojis.some
                THEN local_config.conventional_commit_emojis.val ELSE @]

set_update_url(self, update_url) == [self EXCEPT !.update_url = update_url]

\* a set_gitmojis that extends the catalog it finds
set_gitmojis_append(self, gitmojis, t) ==
    [self EXCEPT !.last_update = Some(t), !.gitmojis = @ \o gitmojis]

\* GitmojiConfig::set_gitmojis; t is OffsetDateTime::now_utc()
set_gitmojis(self, gitmojis, t) ==
    [self EXCEPT !.last_update = Some(t), !.gitmojis = gitmojis]

\* the orders in which a HashMap with the key set K can be iterated
IterationOrders(K) ==
    {s \in [1..Cardinality(K) -> K] : \A i, j \in DOMAIN s : s[i] = s[j] => i = j}

\* a flattening that keeps the type each value carries
set_conventional_commit_emojis_value_type(self, types, order, t) ==
    [self EXCEPT
        !.last_update = Some(t),
        !.conventional_commit_emojis = [i \in 1..Len(order) |-> types[order[i]]]]

\* GitmojiConfig::set_conventional_commit_emojis, for one iteration order of the map
set_conventional_commit_emojis(self, types, order, t) ==
    [self EXCEPT
        !.last_update = Some(t),
        !.conventional_commit_emojis =
            [i \in 1..Len(order) |->
                [type |-> order[i], code |-> types[order[i]].code,
                 description |-> types[order[i]].description,
                 emoji |-> types[order[i]].emoji]]]

(***************************************************************************)
(* serde: a document (TOML table or JSON object) is a function from the    *)
(* keys it holds to their values. A None field is not written; a key that  *)
(* is missing (or null) reads as None where the field is an Option, is an  *)
(* error where it is not, and unknown keys are ignored.                    *)
(***************************************************************************)
OptionalEntryKeys == {"name", "description"}

\* a serializer that writes an absent name or description as the empty string
ser_entry_none_as_empty(e) ==
    [k \in DOMAIN e |->
        IF k \in OptionalEntryKeys THEN (IF e[k].some THEN e[k].val ELSE "") ELSE e[k]]

\* Serialize for Gitmoji and ConventionalEmojiCommit
ser_entry(e) ==
    [k \in {k \in DOMAIN e : k \in OptionalEntryKeys => e[k].some} |->
        IF k \in OptionalEntryKeys THEN e[k].val ELSE e[k]]

opt_key(o, k) == IF k \in DOMAIN o THEN Some(o[k]) ELSE None

de_Gitmoji_ok(o) == {"emoji", "code"} \subseteq DOMAIN o
de_Gitmoji(o) == Gitmoji_new(o.emoji, o.code, opt_key(o, "name"), opt_key(o, "description"))

de_ConventionalEmojiCommit_ok(o) == {"emoji", "code", "type"} \subseteq DOMAIN o
de_ConventionalEmojiCommit(o) ==
    ConventionalEmojiCommit_new(o.emoji, o.code, o.type, opt_key(o, "description"))

ser_seq(s) == [i \in 1..Len(s) |-> ser_entry(s[i])]
de_gitmojis_ok(s) == \A i \in 1..Len(s) : de_Gitmoji_ok(s[i])
de_gitmojis(s) == [i \in 1..Len(s) |-> de_Gitmoji(s[i])]
de_conventional_ok(s) == \A i \in 1..Len(s) : de_ConventionalEmojiCommit_ok(s[i])
de_conventional(s) == [i \in 1..Len(s) |-> de_ConventionalEmojiCommit(s[i])]

\* time::serde::iso8601: the timestamp as an ISO-8601 string
iso8601(t) == [iso8601 |-> t]
de_iso8601(v) == v.iso8601

\* toml_edit::ser::to_string_pretty(&GitmojiConfig)
ser_GitmojiConfig(c) ==
    [k \in {k \in ConfigFields : k = "last_update" => c.last_update.some} |->
        CASE k = "last_update" -> iso8601(c.last_update.val)
          [] k = "gitmojis" -> ser_seq(c.gitmojis)
          [] k = "conventional_commit_emojis" -> ser_seq(c.conventional_commit_emojis)
          [] OTHER -> c[k]]

de_catalogs_ok(doc) ==
    /\ "gitmojis" \in DOMAIN doc => de_gitmojis_ok(doc.gitmojis)
    /\ "conventional_commit_emojis" \in DOMAIN doc =>
            de_conventional_ok(doc.conventional_commit_emojis)

de_field(doc, k) ==
    CASE k = "last_update" -> Some(de_iso8601(doc[k]))
      [] k = "gitmojis" -> de_gitmojis(doc[k])
      [] k = "conventional_commit_emojis" -> de_conventional(doc[k])
      [] OTHER -> doc[k]

\* toml_edit::de::from_slice::<GitmojiConfig>, #[serde(default)]: a missing key
\* takes the value GitmojiConfig::default() has
de_GitmojiConfig(doc) ==
    IF de_catalogs_ok(doc)
        THEN Ok([k \in ConfigFields |->
                    IF k \in DOMAIN doc THEN de_field(doc, k) ELSE GitmojiConfig_default[k]])
        ELSE Err("parse")

\* toml_edit::de::from_slice::<LocalGitmojiConfig>: every field an Option
de_LocalGitmojiConfig(doc) ==
    IF de_catalogs_ok(doc)
        THEN Ok([k \in LocalFields |->
                    IF k \in DOMAIN doc THEN Some(de_field(doc, k)) ELSE None])
        ELSE Err("parse")

(***************************************************************************)
(* The two files. The global one is missing, holds a document, or holds    *)
(* the leftover of a write that failed midway; the local override is       *)
(* missing, holds a document, or holds text that is no TOML.               *)
(***************************************************************************)
NoFile == [kind |-> "missing"]
TruncatedFile == [kind |-> "truncated"]
MalformedFile == [kind |-> "malformed"]
TomlFile(doc) == [kind |-> "toml", doc |-> doc]

\* cmd/config.rs read_local_config
read_local_config(lf) ==
    IF lf.kind = "toml" THEN de_LocalGitmojiConfig(lf.doc)
    ELSE IF lf.kind = "missing" THEN Ok(LocalGitmojiConfig_default)
    ELSE Err("parse")

\* the global file as deserialized by read_config, before the merge
read_global(f) ==
    IF f.kind = "missing" THEN Err("io")
    ELSE IF f.kind = "toml" THEN de_GitmojiConfig(f.doc)
    ELSE Err("parse")

\* a read_config that never applies the local override
read_config_no_merge(f, lf) ==
    IF ~read_global(f).ok THEN read_global(f)
    ELSE IF ~read_local_config(lf).ok THEN read_local_config(lf)
    ELSE read_global(f)

\* cmd/config.rs read_config
read_config(f, lf) ==
    IF ~read_global(f).ok THEN read_global(f)
    ELSE IF ~read_local_config(lf).ok THEN read_local_config(lf)
    ELSE Ok(merge(read_global(f).val, read_local_config(lf).val))

\* a read_config_or_fail that falls back to the default config
read_config_or_fail_default(f, lf) ==
    IF read_config(f, lf).ok THEN read_config(f, lf) ELSE Ok(GitmojiConfig_default)

\* cmd/config.rs read_config_or_fail: every error becomes MissingConfigFile
read_config_or_fail(f, lf) ==
    IF read_config(f, lf).ok THEN read_config(f, lf) ELSE Err("MissingConfigFile")

\* cmd/config.rs read_config_or_default
read_config_or_default(f, lf) ==
    IF read_config(f, lf).ok THEN read_config(f, lf).val ELSE GitmojiConfig_default

(***************************************************************************)
(* cmd/update.rs: what the remote end can answer, and how it is read.      *)
(***************************************************************************)
J_art == [emoji |-> "[art]", entity |-> "&#x1f3a8;", code |-> ":art:",
          description |-> "Improve structure", name |-> "art"]
J_sparkles == [emoji |-> "[sparkles]", code |-> ":sparkles:"]
J_nocode == [emoji |-> "[bug]", name |-> "bug"]

V_feat == [emoji |-> "[sparkles]", code |-> ":sparkles:", type |-> "feat",
           description |-> "A new feature"]
V_fix == [emoji |-> "[bug]", code |-> ":bug:", type |-> "fix"]
V_notype == [emoji |-> "[art]", code |-> ":art:"]

\* the gitmoji arrays and the type maps a remote answer carries
GitmojiArrays == {<<>>, <<J_art>>, <<J_art, J_sparkles>>, <<J_sparkles, J_art>>, <<J_nocode>>}
TypeMaps == {<<>>, [feat |-> V_feat], [feat |-> V_fix, fix |-> V_feat], [fix |-> V_notype]}

\* response bodies: no JSON at all, or a JSON object
NotJson == [json |-> FALSE]
JsonBody(o) == [json |-> TRUE, obj |-> o]
Bodies ==
    {NotJson, JsonBody([plaf |-> <<>>])}
    \cup {JsonBody([gitmojis |-> l]) : l \in GitmojiArrays}
    \cup {JsonBody([types |-> m]) : m \in TypeMaps}
ErrorBodies == {NotJson, JsonBody([gitmojis |-> <<J_art>>]), JsonBody([types |-> [feat |-> V_feat]])}

IsSuccessStatus(s) == s \in 200..299

\* the outcome of reqwest::get: a transport error, or a response
HttpResponse(s, b) == [net |-> TRUE, status |-> s, body |-> b]
Responses ==
    {[net |-> FALSE]}
    \cup {HttpResponse(200, b) : b \in Bodies}
    \cup {HttpResponse(404, b) : b \in ErrorBodies}
NoResponse == [net |-> FALSE, none |-> TRUE]

\* cmd/update.rs get_gitmojis: reqwest::get(url).await?.json::<GetGitmojis>().await?
get_gitmojis(r) ==
    IF ~r.net THEN Err("reqwest")
    ELSE IF ~r.body.json THEN Err("json")
    ELSE IF "gitmojis" \notin DOMAIN r.body.obj THEN Err("json")
    ELSE IF ~de_gitmojis_ok(r.body.obj.gitmojis) THEN Err("json")
    ELSE Ok([gitmojis |-> de_gitmojis(r.body.obj.gitmojis)])

\* cmd/update.rs get_conventional_commit_emojis
get_conventional_commit_emojis(r) ==
    IF ~r.net THEN Err("reqwest")
    ELSE IF ~r.body.json THEN Err("json")
    ELSE IF "types" \notin DOMAIN r.body.obj THEN Err("json")
    ELSE IF \E k \in DOMAIN r.body.obj.types :
                ~de_ConventionalEmojiCommit_ok(r.body.obj.types[k]) THEN Err("json")
    ELSE Ok([types |-> [k \in DOMAIN r.body.obj.types |->
                            de_ConventionalEmojiCommit(r.body.obj.types[k])]])

\* what the specification's fetch makes of a response
fetch(specification, r) ==
    IF specification = "Default" THEN get_gitmojis(r) ELSE get_conventional_commit_emojis(r)

(***************************************************************************)
(* cmd/commit.rs, cmd/mod.rs: the prompts of a commit and the title.       *)
(***************************************************************************)
\* what the user types: the picked index, the scope, the title, the message
ScopeInputs == {"", "core/", "ui"}
TitleInputs == {"add x", "new button"}
DescriptionInputs == {"", "body"}
Answers(catalog) ==
    [idx : 1..Len(catalog), scope : ScopeInputs, title : TitleInputs,
     description : DescriptionInputs]

description_of(text) == IF text = "" THEN None ELSE Some(text)

\* cmd/commit.rs get_default_commit_params; an empty scope input takes the default "*"
get_default_commit_params(config, a) ==
    [gitmoji |-> config.gitmojis[a.idx],
     scope |-> IF config.scope THEN Some(IF a.scope = "" THEN "*" ELSE a.scope) ELSE None,
     title |-> a.title,
     description |-> description_of(a.description)]

\* cmd/commit.rs get_conventional_emoji_commit_params; the scope may be left empty
get_conventional_emoji_commit_params(config, a) ==
    [emoji |-> config.conventional_commit_emojis[a.idx],
     type_name |-> config.conventional_commit_emojis[a.idx].type,
     scope |-> IF config.scope THEN Some(a.scope) ELSE None,
     title |-> a.title,
     description |-> description_of(a.description)]

\* a token that ignores the configured format
emoji_token_code_only(format, entry) == entry.code

\* match config.format(): the short code or the glyph
emoji_token(format, entry) == IF format = "UseCode" THEN entry.code ELSE entry.emoji

\* a Default title that separates scope and title with ": "
default_title_separated(token, scope, title) ==
    IF scope.some THEN token \o " " \o scope.val \o ": " \o title
    ELSE token \o " " \o title

\* cmd/mod.rs ask_commit_title_description, Default branch: scope.map_or_else
default_title(token, scope, title) ==
    IF scope.some THEN token \o " " \o scope.val \o title
    ELSE token \o " " \o title

\* a conventional title that does not test the scope for emptiness
conventional_title_no_empty_test(token, type_name, scope, title) ==
    IF scope.some THEN token \o type_name \o "(" \o scope.val \o "): " \o title
    ELSE token \o type_name \o ": " \o title

\* cmd/mod.rs ask_commit_title_description, ConventionalEmojiCommits branch
conventional_title(token, type_name, scope, title) ==
    IF scope.some /\ scope.val # ""
        THEN token \o type_name \o "(" \o scope.val \o "): " \o title
    ELSE token \o type_name \o ": " \o title

\* the catalog the prompt of a commit offers
catalog_of(config) ==
    IF config.specification = "Default" THEN config.gitmojis
    ELSE config.conventional_commit_emojis

commit_params(config, a) ==
    IF config.specification = "Default" THEN get_default_commit_params(config, a)
    ELSE get_conventional_emoji_commit_params(config, a)

\* cmd/mod.rs ask_commit_title_description: CommitTitleDescription
ask_commit_title_description(config, p) ==
    IF config.specification = "Default"
        THEN [title |-> default_title(emoji_token(config.format, p.gitmoji), p.scope, p.title),
              description |-> p.description]
        ELSE [title |-> conventional_title(emoji_token(config.format, p.emoji), p.type_name,
                                           p.scope, p.title),
              description |-> p.description]

(***************************************************************************)
(* State.                                                                  *)
(*   file, localFile  the persisted global config and the local override   *)
(*   pc               idle | fetch (awaiting the response) | ask (awaiting *)
(*                    the answers) | git (awaiting git commit) | done      *)
(*   cmd, opts        the running command and its arguments                *)
(*   conf             the invocation's in-memory GitmojiConfig             *)
(*   exit             how the invocation ended                             *)
(*   now              the clock, one tick per invocation                   *)
(*   resp             the response the refresh received                    *)
(*   params, title    the commit parameters and the CommitTitleDescription *)
(*   gitCalls         the git commit calls of the invocation               *)
(* History variables (they record, the program does not read them):        *)
(*   startFile        the global file as the invocation found it           *)
(*   premerge         the global config as deserialized, before the merge  *)
(*   localRead        the local override as deserialized                   *)
(*   before           the in-memory config as the refresh found it         *)
(*   answer           what the user typed at the prompts of a commit       *)
(*   confOverridden, fileOverridden  the fields whose value was put there  *)
(*                    by a local override                                  *)
(*   confFetched, fileFetched  whether a fetch succeeded on the config     *)
(*   staged           what has_staged_changes answered, if it was asked    *)
(*   gitStatus        how git commit ended, if it was run                  *)
(***************************************************************************)
VARIABLES file, localFile, pc, cmd, opts, conf, exit, now, resp, params, title, gitCalls,
          startFile, premerge, localRead, before, answer, confOverridden, fileOverridden,
          confFetched, fileFetched, staged, gitStatus

vars == <<file, localFile, pc, cmd, opts, conf, exit, now, resp, params, title, gitCalls,
          startFile, premerge, localRead, before, answer, confOverridden, fileOverridden,
          confFetched, fileFetched, staged, gitStatus>>

NoConf == [none |-> TRUE]
NoParams == [none |-> TRUE]
NoTitle == [none |-> TRUE]
NoAnswer == [none |-> TRUE]
NoOpts == [all |-> FALSE, amend |-> FALSE, url |-> None]
HasConf == "auto_add" \in DOMAIN conf

\* the local override files of the repository the tool is run in
LocalDocs ==
    {<<>>,
     [auto_add |-> TRUE, format |-> "UseEmoji", signed |-> TRUE],
     [gitmojis |-> <<ser_entry(G_rocket)>>, conventional_commit_emojis |-> <<ser_entry(C_docs)>>],
     [specification |-> "ConventionalEmojiCommits", scope |-> FALSE, auto_add |-> FALSE]}
LocalFiles == {NoFile, MalformedFile} \cup {TomlFile(d) : d \in LocalDocs}

Init ==
    /\ file = NoFile
    /\ localFile \in LocalFiles
    /\ pc = "idle"
    /\ cmd = "none"
    /\ opts = NoOpts
    /\ conf = NoConf
    /\ exit = "none"
    /\ now = 0
    /\ resp = NoResponse
    /\ params = NoParams
    /\ title = NoTitle
    /\ gitCalls = <<>>
    /\ startFile = NoFile
    /\ premerge = None
    /\ localRead = None
    /\ before = NoConf
    /\ answer = NoAnswer
    /\ confOverridden = {}
    /\ fileOverridden = {}
    /\ confFetched = FALSE
    /\ fileFetched = FALSE
    /\ staged = "unasked"
    /\ gitStatus = "none"

\* a new invocation of the CLI
Begin(c, o) ==
    /\ pc \in {"idle", "done"}
    /\ now < MaxRuns
    /\ now' = now + 1
    /\ cmd' = c
    /\ opts' = o
    /\ resp' = NoResponse
    /\ params' = NoParams
    /\ title' = NoTitle
    /\ gitCalls' = <<>>
    /\ answer' = NoAnswer
    /\ gitStatus' = "none"
    /\ startFile' = file

\* read_config as the invocation runs it, with its history
TrackLoad ==
    LET loaded == read_config(file, localFile)
        global == read_global(file)
    IN  /\ premerge' = IF loaded.ok THEN Some(global.val) ELSE None
        /\ localRead' = IF loaded.ok THEN Some(read_local_config(localFile).val) ELSE None
        /\ confOverridden' =
            IF loaded.ok
                THEN fileOverridden \cup {k \in ConfigFields : loaded.val[k] # global.val[k]}
                ELSE {}
        /\ confFetched' = (loaded.ok /\ fileFetched)
TrackFresh ==
    /\ premerge' = None
    /\ localRead' = None
    /\ confOverridden' = {}
    /\ confFetched' = FALSE

Finish(code) ==
    /\ pc' = "done"
    /\ exit' = code

(***************************************************************************)
(* cmd/config.rs create_config: the answers of the interactive setup.      *)
(***************************************************************************)
ConfigAnswer(auto_add, specification, format, signed, scope, url) ==
    [auto_add |-> auto_add, specification |-> specification, format |-> format,
     signed |-> signed, scope |-> scope, url |-> url]
ConfigAnswers ==
    {ConfigAnswer(FALSE, "Default", "UseCode", FALSE, TRUE, ""),
     ConfigAnswer(TRUE, "Default", "UseEmoji", TRUE, FALSE, CustomUrl),
     ConfigAnswer(FALSE, "ConventionalEmojiCommits", "UseCode", TRUE, FALSE, ""),
     ConfigAnswer(TRUE, "ConventionalEmojiCommits", "UseEmoji", FALSE, TRUE, CustomUrl)}

default_url(specification) ==
    IF specification = "Default" THEN DEFAULT_URL ELSE CONVENTIONAL_EMOJI_COMMITS_DEFAULT_URL

\* a create_config that asks for the scope under either specification
create_config_asks_scope(a) ==
    GitmojiConfig_new(a.auto_add, a.specification, a.format, a.signed, a.scope,
                      IF a.url = "" THEN default_url(a.specification) ELSE a.url)

\* the scope is asked only under Default (under ConventionalEmojiCommits the scope
\* field of the answers is never read); an empty url input takes the default url
create_config(a) ==
    GitmojiConfig_new(a.auto_add, a.specification, a.format, a.signed,
                      IF a.specification = "Default" THEN a.scope ELSE TRUE,
                      IF a.url = "" THEN default_url(a.specification) ELSE a.url)

\* cmd/mod.rs config, up to the await of the fetch in update_config_or_stop
Config ==
    /\ Begin("config", NoOpts)
    /\ TrackFresh
    /\ \/ /\ conf' = GitmojiConfig_default
          /\ pc' = "fetch"
          /\ exit' = "running"
       \/ \E a \in ConfigAnswers :
             /\ conf' = create_config(a)
             /\ pc' = "fetch"
             /\ exit' = "running"
       \/ /\ conf' = NoConf
          /\ Finish("error")
    /\ before' = conf'
    /\ staged' = "unasked"
    /\ UNCHANGED <<file, localFile, fileOverridden, fileFetched>>

\* cmd/mod.rs update_config, up to the await of the fetch
UpdateConfig ==
    \E url \in {None, Some(CustomUrl)} :
        /\ Begin("update_config", [NoOpts EXCEPT !.url = url])
        /\ TrackLoad
        /\ conf' = IF url.some
                     THEN set_update_url(read_config_or_default(file, localFile), url.val)
                     ELSE read_config_or_default(file, localFile)
        /\ before' = conf'
        /\ staged' = "unasked"
        /\ pc' = "fetch"
        /\ exit' = "running"
        /\ UNCHANGED <<file, localFile, fileOverridden, fileFetched>>

\* cmd/config.rs write_config: written, failed before the file was touched, or
\* failed after fs::write had truncated it
WriteOutcomes == {"written", "failed", "truncated"}
write_config(f, config, io) ==
    IF io = "written" THEN TomlFile(ser_GitmojiConfig(config))
    ELSE IF io = "truncated" THEN TruncatedFile
    ELSE f

\* the catalog update applied to the config in memory
updated(config, got, order, t) ==
    IF config.specification = "Default"
        THEN set_gitmojis(config, got.gitmojis, t)
        ELSE set_conventional_commit_emojis(config, got.types, order, t)

fetched_orders(config, got) ==
    IF config.specification = "Default" THEN {<<>>} ELSE IterationOrders(DOMAIN got.types)

\* cmd/mod.rs update_config_or_stop from the response on: update_gitmojis or
\* update_conventional_emoji_commits, then the command's end
Respond ==
    /\ pc = "fetch"
    /\ \E r \in Responses :
        /\ resp' = r
        /\ LET got == fetch(conf.specification, r) IN
            \/ /\ ~got.ok
               /\ Finish("EXIT_CANNOT_UPDATE")
               /\ UNCHANGED <<file, conf, confOverridden, fileOverridden, confFetched,
                              fileFetched>>
            \/ /\ got.ok
               /\ \E order \in fetched_orders(conf, got.val), io \in WriteOutcomes :
                    /\ conf' = updated(conf, got.val, order, now)
                    /\ confFetched' = TRUE
                    /\ confOverridden' =
                         confOverridden \ {IF conf.specification = "Default" THEN "gitmojis"
                                           ELSE "conventional_commit_emojis"}
                    /\ file' = write_config(file, conf', io)
                    /\ fileOverridden' = IF io = "written" THEN confOverridden'
                                         ELSE IF io = "truncated" THEN {}
                                         ELSE fileOverridden
                    /\ fileFetched' = IF io = "written" THEN TRUE
                                      ELSE IF io = "truncated" THEN FALSE
                                      ELSE fileFetched
                    /\ Finish(IF io = "written" THEN "ok" ELSE "EXIT_CANNOT_UPDATE")
    /\ UNCHANGED <<localFile, cmd, opts, now, params, title, gitCalls, startFile, premerge,
                   localRead, before, answer, staged, gitStatus>>

(***************************************************************************)
(* cmd/mod.rs: commit, list, search.                                       *)
(***************************************************************************)
StagedOutcomes == {"staged", "nothing", "error"}

\* cmd/mod.rs commit, up to the prompts: get_config_or_stop, then the staged-changes gate
Commit ==
    \E all \in BOOLEAN, amend \in BOOLEAN, has_staged \in StagedOutcomes :
        /\ Begin("commit", [NoOpts EXCEPT !.all = all, !.amend = amend])
        /\ TrackLoad
        /\ LET c == read_config_or_fail(file, localFile) IN
            IF ~c.ok
                THEN /\ conf' = NoConf
                     /\ staged' = "unasked"
                     /\ Finish("EXIT_NO_CONFIG")
                ELSE /\ conf' = c.val
                     /\ staged' = IF amend THEN "unasked" ELSE has_staged
                     /\ IF ~amend /\ has_staged = "error" THEN Finish("error")
                        ELSE IF ~amend /\ has_staged = "nothing" THEN Finish("ok")
                        ELSE pc' = "ask" /\ exit' = "running"
        /\ before' = NoConf
        /\ UNCHANGED <<file, localFile, fileOverridden, fileFetched>>

\* a call that adds everything only when the flag asks for it
git_commit_call_flag_only(o, config, t) ==
    [all |-> o.all, amend |-> o.amend, sign |-> config.signed,
     title |-> t.title, description |-> t.description]

\* git::commit(all || config.auto_add(), amend, config.signed(), &title, description)
git_commit_call(o, config, t) ==
    [all |-> o.all \/ config.auto_add, amend |-> o.amend, sign |-> config.signed,
     title |-> t.title, description |-> t.description]

\* cmd/mod.rs commit from the prompts on: ask_commit_title_description, then git::commit
AskCommit ==
    /\ pc = "ask"
    /\ \/ /\ Finish("error")
          /\ UNCHANGED <<params, title, gitCalls, answer>>
       \/ \E a \in Answers(catalog_of(conf)) :
             /\ answer' = a
             /\ params' = commit_params(conf, a)
             /\ title' = ask_commit_title_description(conf, params')
             /\ gitCalls' = Append(gitCalls, git_commit_call(opts, conf, title'))
             /\ pc' = "git"
             /\ exit' = "running"
    /\ UNCHANGED <<file, localFile, cmd, opts, conf, now, resp, startFile, premerge, localRead,
                   before, confOverridden, fileOverridden, confFetched, fileFetched, staged,
                   gitStatus>>

\* cmd/mod.rs commit: the exit status of git commit
GitExit ==
    /\ pc = "git"
    /\ \E status \in {"success", "failure", "error"} :
          /\ gitStatus' = status
          /\ Finish(IF status = "success" THEN "ok"
                    ELSE IF status = "failure" THEN "FailToCommit" ELSE "error")
    /\ UNCHANGED <<file, localFile, cmd, opts, conf, now, resp, params, title, gitCalls,
                   startFile, premerge, localRead, before, answer, confOverridden,
                   fileOverridden, confFetched, fileFetched, staged>>

\* cmd/list.rs print_conventional_commit_emojis unwraps every description
list_panics(config) ==
    /\ config.specification = "ConventionalEmojiCommits"
    /\ \E i \in 1..Len(config.conventional_commit_emojis) :
            ~config.conventional_commit_emojis[i].description.some

\* cmd/mod.rs list
List ==
    /\ Begin("list", NoOpts)
    /\ TrackLoad
    /\ LET c == read_config_or_fail(file, localFile) IN
        IF ~c.ok
            THEN /\ conf' = NoConf
                 /\ Finish("EXIT_NO_CONFIG")
            ELSE /\ conf' = c.val
                 /\ Finish(IF list_panics(c.val) THEN "panic" ELSE "ok")
    /\ before' = NoConf
    /\ staged' = "unasked"
    /\ UNCHANGED <<file, localFile, fileOverridden, fileFetched>>

\* cmd/mod.rs search
Search ==
    /\ Begin("search", NoOpts)
    /\ TrackLoad
    /\ LET c == read_config_or_fail(file, localFile) IN
        IF ~c.ok
            THEN /\ conf' = NoConf
                 /\ Finish("EXIT_NO_CONFIG")
            ELSE /\ conf' = c.val
                 /\ Finish("ok")
    /\ before' = NoConf
    /\ staged' = "unasked"
    /\ UNCHANGED <<file, localFile, fileOverridden, fileFetched>>

Next == Config \/ UpdateConfig \/ Respond \/ Commit \/ AskCommit \/ GitExit \/ List \/ Search

Spec == Init /\ [][Next]_vars

(***************************************************************************)
(* The catalog refresh: what the invocation of config or update_config     *)
(* left behind once the response was handled.                              *)
(***************************************************************************)
Refreshed == pc = "done" /\ cmd \in {"config", "update_config"} /\ ~("none" \in DOMAIN resp)

\* the failures of a refresh: no response, a status that is not 2xx, a body that
\* does not parse as the catalog of the config's specification
RefreshFailure ==
    \/ ~resp.net
    \/ ~IsSuccessStatus(resp.status)
    \/ ~fetch(before.specification, resp).ok

CatalogState(c) ==
    <<c.gitmojis, c.conventional_commit_emojis, c.last_update>>

\* C1: a refresh that fails (network error, non-2xx status, JSON parse error) ends
\* in an error and leaves the catalogs and last_update of the config, and the
\* persisted global config file, as they were when the refresh started.
C1_FailedRefreshLeavesNoTrace ==
    (Refreshed /\ RefreshFailure) =>
        /\ exit = "EXIT_CANNOT_UPDATE"
        /\ file = startFile
        /\ CatalogState(conf) = CatalogState(before)

\* C2: the catalog fetch is an error for every response whose status is not 2xx,
\* whatever its body, and for every 2xx response whose body is not JSON of the
\* expected catalog shape; an error of the fetch ends the refresh with
\* EXIT_CANNOT_UPDATE and without a new last_update.
C2_FetchRejectsNon2xxAndBadBody ==
    (Refreshed /\ resp.net
        /\ (~IsSuccessStatus(resp.status) \/ ~fetch(before.specification, resp).ok)) =>
        /\ exit = "EXIT_CANNOT_UPDATE"
        /\ conf.last_update = before.last_update

\* the entries a well-formed answer carries, as the catalog they make
IsFetchedGitmojis(catalog, array) ==
    /\ Len(catalog) = Len(array)
    /\ \A i \in 1..Len(array) :
        /\ catalog[i].emoji = array[i].emoji
        /\ catalog[i].code = array[i].code
        /\ catalog[i].name = opt_key(array[i], "name")
        /\ catalog[i].description = opt_key(array[i], "description")

IsFetchedTypes(catalog, map) ==
    /\ Len(catalog) = Cardinality(DOMAIN map)
    /\ \A k \in DOMAIN map : \E i \in 1..Len(catalog) :
        /\ catalog[i].type = k
        /\ catalog[i].emoji = map[k].emoji
        /\ catalog[i].code = map[k].code
        /\ catalog[i].description = opt_key(map[k], "description")

\* C3: a successful refresh replaces the catalog of the config's specification by
\* exactly the fetched entries (gitmojis in the order received), sets last_update,
\* writes that config to the global config file and returns it; the other catalog,
\* auto_add, specification, format, signed, scope and update_url are unchanged.
C3_SuccessfulRefresh ==
    (Refreshed /\ exit = "ok") =>
        /\ IF before.specification = "Default"
            THEN /\ IsFetchedGitmojis(conf.gitmojis, resp.body.obj.gitmojis)
                 /\ conf.conventional_commit_emojis = before.conventional_commit_emojis
            ELSE /\ IsFetchedTypes(conf.conventional_commit_emojis, resp.body.obj.types)
                 /\ conf.gitmojis = before.gitmojis
        /\ conf.last_update = Some(now)
        /\ file.kind = "toml"
        /\ de_GitmojiConfig(file.doc) = Ok(conf)
        /\ \A k \in {"auto_add", "specification", "format", "signed", "scope", "update_url"} :
                conf[k] = before[k]

\* a refresh that replaced a non-empty catalog of either kind and kept the other
C3_Witness ==
    /\ Refreshed /\ exit = "ok"
    /\ before.gitmojis # <<>>
    /\ before.conventional_commit_emojis # <<>>
    /\ before.specification = "Default"
    /\ Len(conf.gitmojis) = 2
    /\ conf.gitmojis # before.gitmojis

\* C4: the persisted global config file never holds a field value that was put
\* into the config by the merge of a local override.
C4_OverrideNeverPersisted == fileOverridden = {}

\* a fetch that the specification counts as succeeded: a 2xx answer that parses
FetchSucceeded == resp.net /\ IsSuccessStatus(resp.status) /\ fetch(before.specification, resp).ok

\* last_update is set if and only if a fetch returned a catalog for the config,
\* in memory and on disk
LastUpdateIffFetchReturnedOk ==
    /\ HasConf => (conf.last_update.some <=> confFetched)
    /\ file.kind = "toml" => (de_GitmojiConfig(file.doc).val.last_update.some <=> fileFetched)

\* C8: in every reachable state of a config last_update is set if and only if a
\* catalog fetch has succeeded on it; a catalog that came from a local override
\* leaves it as it was, and no failed refresh sets it.
C8_LastUpdateIffFetchSucceeded ==
    /\ LastUpdateIffFetchReturnedOk
    /\ (Refreshed /\ ~FetchSucceeded) => conf.last_update = before.last_update

(***************************************************************************)
(* ConventionalEmojiCommits forces the scope prompt.                       *)
(***************************************************************************)
ScopeForced(c) == c.specification = "ConventionalEmojiCommits" => c.scope

\* C11: every config that configuration creation produced (create_config, or the
\* default config) has scope = TRUE whenever its specification is
\* ConventionalEmojiCommits, whatever the user would have answered to a scope
\* prompt, and this still holds of the config in memory and of the persisted one
\* after every later refresh and every later load with its merge.
C11_ConventionalForcesScope ==
    /\ HasConf => ScopeForced(conf)
    /\ file.kind = "toml" => ScopeForced(de_GitmojiConfig(file.doc).val)

\* a config created under ConventionalEmojiCommits was persisted, then loaded
\* again under a local override that switches the scope off, and refreshed
C11_Witness ==
    /\ Refreshed /\ exit = "ok" /\ cmd = "update_config"
    /\ conf.specification = "ConventionalEmojiCommits"
    /\ localRead.some /\ localRead.val.scope = Some(FALSE)
    /\ conf.scope
    /\ de_GitmojiConfig(file.doc).val.scope

(***************************************************************************)
(* A missing global config file.                                           *)
(***************************************************************************)
\* the invocation found no global config file
StartedWithoutConfig == pc # "idle" /\ startFile.kind = "missing"

\* the invocation stopped at the load: no-config exit, no config in memory, no
\* fetch, no write, no git commit
StoppedAtLoad ==
    /\ pc = "done"
    /\ exit = "EXIT_NO_CONFIG"
    /\ ~HasConf
    /\ "none" \in DOMAIN resp
    /\ file = startFile
    /\ gitCalls = <<>>

\* C12 as stated: with the global config file missing, each of commit, search,
\* list and update_config stops at the load with the no-config exit code; none
\* goes on with a substitute config, fetches, writes the config or calls git.
C12_MissingConfigStopsEveryCommand ==
    (StartedWithoutConfig /\ cmd \in {"commit", "search", "list", "update_config"}) =>
        StoppedAtLoad

\* C12, amended: with the global config file missing, commit, search and list
\* stop at the load with the no-config exit code, without a substitute config, a
\* fetch, a config write or a git commit; update_config goes on with the default
\* config (and the url given on the command line) to the fetch.
C12_MissingConfigStopsCommitSearchList ==
    StartedWithoutConfig =>
        /\ cmd \in {"commit", "search", "list"} => StoppedAtLoad
        /\ cmd = "update_config" =>
                /\ before = IF opts.url.some
                               THEN set_update_url(GitmojiConfig_default, opts.url.val)
                               ELSE GitmojiConfig_default
                /\ exit # "EXIT_NO_CONFIG"

\* a commit that was asked to amend and to add everything stopped for want of a config
C12_Witness ==
    /\ StartedWithoutConfig
    /\ cmd = "commit" /\ opts.amend /\ opts.all
    /\ StoppedAtLoad

(***************************************************************************)
(* The local override file: absent, or malformed.                          *)
(***************************************************************************)
\* the invocation loaded the config, and the global file it found deserializes
LoadedReadableGlobal ==
    /\ pc # "idle"
    /\ cmd \in {"commit", "search", "list", "update_config"}
    /\ read_global(startFile).ok

\* C13: a load with no local override file is not an error and yields the global
\* config unchanged; a load with a local override file that does not parse fails
\* with a parse error: the invocation does not report a missing config (the
\* no-config exit), and does not go on with any config, be it the global one
\* under an empty override or the default one.
C13_LocalOverrideAbsentOrMalformed ==
    LoadedReadableGlobal =>
        /\ localFile.kind = "missing" =>
                /\ exit # "EXIT_NO_CONFIG"
                /\ premerge.some
                /\ localRead.val = LocalGitmojiConfig_default
                /\ merge(premerge.val, localRead.val) = read_global(startFile).val
        /\ ~read_local_config(localFile).ok =>
                /\ exit # "EXIT_NO_CONFIG"
                /\ ~HasConf
                /\ file = startFile

(***************************************************************************)
(* The write of a refresh.                                                 *)
(***************************************************************************)
\* the global file changes only in the step that handles a response which the
\* fetch turned into a catalog, and it is that invocation's first change of it
WriteOnceAfterFetch ==
    file' # file =>
        /\ pc = "fetch" /\ pc' = "done"
        /\ fetch(conf.specification, resp').ok
        /\ file = startFile

\* the global file is the one the invocation found, or holds the complete new config
OldOrNewOnDisk ==
    \/ file = startFile
    \/ /\ file.kind = "toml"
       /\ HasConf
       /\ de_GitmojiConfig(file.doc) = Ok(conf)

\* C14: during a refresh the global config file is written only after the fetch
\* and the parse have both succeeded, and at most once; wherever the refresh is
\* interrupted, the file on disk is the complete old config or the complete new
\* one, never a partial or truncated one.
C14_WriteOnceAndNeverPartial ==
    /\ [][WriteOnceAfterFetch]_vars
    /\ [](OldOrNewOnDisk /\ file.kind # "truncated")

(***************************************************************************)
(* The flattening of the fetched type map.                                 *)
(***************************************************************************)
\* the refresh of a ConventionalEmojiCommits config got a type map and set it
Flattened ==
    /\ Refreshed
    /\ before.specification = "ConventionalEmojiCommits"
    /\ fetch(before.specification, resp).ok

\* C16: the catalog made of a fetched type map has one entry per key of the map:
\* as many entries as keys, pairwise distinct types, each entry's type a key of
\* the map (whatever type the value under that key carries) and its emoji, code
\* and description those of the value under that key.
C16_FlattenOneEntryPerKey ==
    Flattened =>
        LET map == resp.body.obj.types
            catalog == conf.conventional_commit_emojis
        IN  /\ Len(catalog) = Cardinality(DOMAIN map)
            /\ \A i, j \in DOMAIN catalog : catalog[i].type = catalog[j].type => i = j
            /\ \A i \in DOMAIN catalog :
                  /\ catalog[i].type \in DOMAIN map
                  /\ catalog[i].emoji = map[catalog[i].type].emoji
                  /\ catalog[i].code = map[catalog[i].type].code
                  /\ catalog[i].description = opt_key(map[catalog[i].type], "description")

\* a map of two keys whose values carry each other's type was flattened
C16_Witness ==
    /\ Flattened
    /\ DOMAIN resp.body.obj.types = {"feat", "fix"}
    /\ resp.body.obj.types["feat"].type = "fix"
    /\ Len(conf.conventional_commit_emojis) = 2
    /\ \E i \in 1..2 :
          /\ conf.conventional_commit_emojis[i].type = "feat"
          /\ conf.conventional_commit_emojis[i].code = ":bug:"

(***************************************************************************)
(* The merge, on its own: the tool is started once on a global config file *)
(* it wrote earlier and on any local override file the user may have put   *)
(* into the repository.                                                    *)
(***************************************************************************)
\* longest catalog a local override of MergeSpec carries
MaxCat == 1

SeqUpTo(S, n) == UNION {[1..m -> S] : m \in 0..n}
Opt(S) == {None} \cup {Some(v) : v \in S}

\* Serialize for LocalGitmojiConfig: what the user wrote for the override l
ser_LocalGitmojiConfig(l) ==
    [k \in {k \in LocalFields : l[k].some} |->
        IF k \in {"gitmojis", "conventional_commit_emojis"} THEN ser_seq(l[k].val)
        ELSE l[k].val]

MergeLocals ==
    [auto_add : Opt(BOOLEAN), specification : Opt(CommitSpecification),
     format : Opt(EmojiFormat), signed : Opt(BOOLEAN), scope : Opt(BOOLEAN),
     gitmojis : Opt(SeqUpTo({G_art, G_rocket}, MaxCat)),
     conventional_commit_emojis : Opt(SeqUpTo({C_docs}, MaxCat))]

\* global configs as earlier refreshes at time 1 left them
MergeGlobals ==
    {set_gitmojis(GitmojiConfig_default, <<>>, 1),
     set_gitmojis(GitmojiConfig_new(TRUE, "Default", "UseEmoji", TRUE, TRUE, CustomUrl),
                  <<G_art, G_sparkles>>, 1),
     set_conventional_commit_emojis(
        GitmojiConfig_new(FALSE, "ConventionalEmojiCommits", "UseCode", TRUE, TRUE,
                          CONVENTIONAL_EMOJI_COMMITS_DEFAULT_URL),
        [feat |-> C_feat, fix |-> C_fix], <<"fix", "feat">>, 1)}

MergeInit ==
    /\ file \in {TomlFile(ser_GitmojiConfig(g)) : g \in MergeGlobals}
    /\ localFile \in {NoFile} \cup {TomlFile(ser_LocalGitmojiConfig(l)) : l \in MergeLocals}
    /\ pc = "idle"
    /\ cmd = "none"
    /\ opts = NoOpts
    /\ conf = NoConf
    /\ exit = "none"
    /\ now = MaxRuns - 1
    /\ resp = NoResponse
    /\ params = NoParams
    /\ title = NoTitle
    /\ gitCalls = <<>>
    /\ startFile = NoFile
    /\ premerge = None
    /\ localRead = None
    /\ before = NoConf
    /\ answer = NoAnswer
    /\ confOverridden = {}
    /\ fileOverridden = {}
    /\ confFetched = FALSE
    /\ fileFetched = TRUE
    /\ staged = "unasked"
    /\ gitStatus = "none"

MergeNext == List \/ Search \/ UpdateConfig

MergeSpec == MergeInit /\ [][MergeNext]_vars

\* the invocation holds the merged config as read_config returned it (update_config
\* may have set the url given on the command line, no refresh has touched it yet)
JustMerged == premerge.some /\ HasConf /\ "none" \in DOMAIN resp

\* C5: override wins: for each of auto_add, format, signed, gitmojis and
\* conventional_commit_emojis that the local override carries, the merged config
\* holds exactly the override's value (a sequence is substituted, not appended).
C5_MergeOverrideWins ==
    JustMerged =>
        \A k \in {"auto_add", "format", "signed", "gitmojis", "conventional_commit_emojis"} :
            localRead.val[k].some => conf[k] = localRead.val[k].val

\* an override replaced a non-empty global catalog by another non-empty one
C5_Witness ==
    /\ JustMerged
    /\ localRead.val.gitmojis.some
    /\ localRead.val.gitmojis.val # <<>>
    /\ premerge.val.gitmojis # <<>>
    /\ premerge.val.gitmojis # localRead.val.gitmojis.val
    /\ localRead.val.auto_add.some
    /\ localRead.val.auto_add.val # premerge.val.auto_add

\* C6: merging with the default (all-absent) override yields the global config
\* itself, and every field the override does not carry keeps its global value.
C6_MergeAbsentKeepsGlobal ==
    JustMerged =>
        /\ localRead.val = LocalGitmojiConfig_default =>
                (IF opts.url.some THEN set_update_url(premerge.val, opts.url.val)
                 ELSE premerge.val) = conf
        /\ \A k \in LocalFields : ~localRead.val[k].some => conf[k] = premerge.val[k]

\* the default override was merged into a config that holds a catalog
C6_Witness ==
    /\ JustMerged
    /\ localRead.val = LocalGitmojiConfig_default
    /\ premerge.val.gitmojis # <<>>
    /\ premerge.val.auto_add
    /\ conf = premerge.val

\* C7: the merge never changes specification, scope, update_url or last_update:
\* a specification or scope of the override is ignored.
C7_MergeKeepsGlobalOnlyFields ==
    JustMerged =>
        /\ conf.specification = premerge.val.specification
        /\ conf.scope = premerge.val.scope
        /\ conf.last_update = premerge.val.last_update
        /\ ~opts.url.some => conf.update_url = premerge.val.update_url

\* the override carried another specification and another scope than the global config
C7_Witness ==
    /\ JustMerged
    /\ localRead.val.specification.some
    /\ localRead.val.specification.val # premerge.val.specification
    /\ localRead.val.scope.some
    /\ localRead.val.scope.val # premerge.val.scope
    /\ ~opts.url.some

(***************************************************************************)
(* The commit title, on its own: the tool is started on a global config    *)
(* file of either specification and format, the scope prompt on or off     *)
(* (a hand-edited file may switch it off under ConventionalEmojiCommits).  *)
(***************************************************************************)
TitleGlobals ==
    {[GitmojiConfig_default EXCEPT
        !.specification = sp, !.format = fm, !.scope = sc, !.signed = sg,
        !.last_update = Some(1),
        !.gitmojis = IF sp = "Default" THEN <<G_sparkles, G_art>> ELSE <<>>,
        !.conventional_commit_emojis =
            IF sp = "Default" THEN <<>> ELSE <<C_feat, C_fix>>] :
        sp \in CommitSpecification, fm \in EmojiFormat, sc \in BOOLEAN, sg \in BOOLEAN}

TitleInit ==
    /\ file \in {TomlFile(ser_GitmojiConfig(g)) : g \in TitleGlobals}
    /\ localFile \in {NoFile, TomlFile([format |-> "UseEmoji", auto_add |-> TRUE])}
    /\ pc = "idle"
    /\ cmd = "none"
    /\ opts = NoOpts
    /\ conf = NoConf
    /\ exit = "none"
    /\ now = MaxRuns - 1
    /\ resp = NoResponse
    /\ params = NoParams
    /\ title = NoTitle
    /\ gitCalls = <<>>
    /\ startFile = NoFile
    /\ premerge = None
    /\ localRead = None
    /\ before = NoConf
    /\ answer = NoAnswer
    /\ confOverridden = {}
    /\ fileOverridden = {}
    /\ confFetched = FALSE
    /\ fileFetched = TRUE
    /\ staged = "unasked"
    /\ gitStatus = "none"

TitleNext == Commit \/ AskCommit \/ GitExit

TitleSpec == TitleInit /\ [][TitleNext]_vars

\* the invocation has produced a commit title
Titled == cmd = "commit" /\ ~("none" \in DOMAIN title)

\* the scope the user was asked for: present when the scope prompt is on
ScopeGiven == conf.scope /\ params.scope.some /\ params.scope.val # ""

\* C9: under Default the title is "{emoji_token} {scope}{title}" when a scope is
\* present and non-empty and "{emoji_token} {title}" otherwise, nothing inserted
\* between scope and title; emoji_token is the picked entry's short code under
\* UseCode and its glyph under UseEmoji. That title is the one git commit gets.
C9_DefaultTitle ==
    (Titled /\ conf.specification = "Default") =>
        LET picked == conf.gitmojis[answer.idx]
            token == IF conf.format = "UseCode" THEN picked.code ELSE picked.emoji
        IN  /\ title.title = IF ScopeGiven
                               THEN token \o " " \o params.scope.val \o answer.title
                               ELSE token \o " " \o answer.title
            /\ gitCalls[1].title = title.title

\* the example of the specification, and a glyph title without scope
C9_Witness ==
    /\ Titled /\ conf.specification = "Default"
    /\ title.title = ":sparkles: core/add x"
    /\ answer.scope = "core/"

C9_WitnessGlyph ==
    /\ Titled /\ conf.specification = "Default"
    /\ title.title = "[art] new button"

\* C10: under ConventionalEmojiCommits the title is
\* "{emoji_token}{type}({scope}): {title}" when a scope is present and non-empty
\* and "{emoji_token}{type}: {title}" when it is absent or empty; type is the
\* picked entry's type and emoji_token its short code under UseCode, its glyph
\* under UseEmoji.
C10_ConventionalTitle ==
    (Titled /\ conf.specification = "ConventionalEmojiCommits") =>
        LET picked == conf.conventional_commit_emojis[answer.idx]
            token == IF conf.format = "UseCode" THEN picked.code ELSE picked.emoji
        IN  /\ title.title = IF ScopeGiven
                               THEN token \o picked.type \o "(" \o answer.scope \o "): "
                                    \o answer.title
                               ELSE token \o picked.type \o ": " \o answer.title
            /\ gitCalls[1].title = title.title

\* a scoped title, and the title of an empty scope
C10_Witness ==
    /\ Titled /\ conf.specification = "ConventionalEmojiCommits"
    /\ title.title = ":sparkles:feat(ui): new button"

C10_WitnessEmptyScope ==
    /\ Titled /\ conf.specification = "ConventionalEmojiCommits"
    /\ conf.scope /\ answer.scope = ""
    /\ title.title = "[bug]fix: add x"

(***************************************************************************)
(* The commit command.                                                     *)
(***************************************************************************)
\* C17: a commit invocation calls git commit at most once, and only with the
\* config loaded, the staged-changes gate passed (amend, or staged changes) and
\* the title made; the call adds everything iff the all flag or the merged
\* config's auto_add is set, signs iff the merged config's signed is set, and
\* carries that title. A commit without amend and without staged changes ends
\* in success without prompt or git call, and the invocation ends in
\* FailToCommit if and only if git commit exited unsuccessfully.
C17_GitCommitOnceAfterGateAndTitle ==
    /\ Len(gitCalls) <= 1
    /\ gitCalls # <<>> =>
          /\ cmd = "commit"
          /\ HasConf /\ premerge.some
          /\ conf = merge(premerge.val, localRead.val)
          /\ opts.amend \/ staged = "staged"
          /\ Titled
          /\ gitCalls[1].title = title.title
          /\ gitCalls[1].description = title.description
          /\ gitCalls[1].all = (opts.all \/ conf.auto_add)
          /\ gitCalls[1].sign = conf.signed
          /\ gitCalls[1].amend = opts.amend
    /\ (cmd = "commit" /\ HasConf /\ ~opts.amend /\ staged = "nothing") =>
          /\ pc = "done" /\ exit = "ok"
          /\ answer = NoAnswer /\ title = NoTitle /\ gitCalls = <<>>
    /\ gitStatus # "none" => (cmd = "commit" /\ pc = "done" /\ Len(gitCalls) = 1)
    /\ (cmd = "commit" /\ pc = "done") => (exit = "FailToCommit" <=> gitStatus = "failure")

\* a commit without the all flag, under a local override that switches auto_add
\* and signed on, called git commit with both, and git commit failed
C17_Witness ==
    /\ cmd = "commit" /\ pc = "done"
    /\ Len(gitCalls) = 1
    /\ ~opts.all /\ ~premerge.val.auto_add /\ gitCalls[1].all
    /\ ~premerge.val.signed /\ gitCalls[1].sign
    /\ staged = "staged"
    /\ exit = "FailToCommit"

\* a commit without amend found nothing staged
C17_WitnessNothingStaged ==
    /\ cmd = "commit" /\ HasConf /\ ~opts.amend /\ staged = "nothing"
    /\ exit = "ok"

(***************************************************************************)
(* The TOML round trip, on its own: write_config is applied to a config,   *)
(* then read_config to the file it left, under an empty local override     *)
(* (no file, or a file without keys).                                      *)
(***************************************************************************)
RoundTripConfigs ==
    [auto_add : BOOLEAN, specification : CommitSpecification, format : EmojiFormat,
     signed : BOOLEAN, scope : BOOLEAN, update_url : {DEFAULT_URL, CustomUrl},
     last_update : Opt({1}),
     gitmojis : SeqUpTo({G_art, G_sparkles}, MaxCat),
     conventional_commit_emojis : SeqUpTo({C_feat, C_fix}, MaxCat)]

RoundTripInit ==
    /\ conf \in RoundTripConfigs
    /\ file = NoFile
    /\ localFile \in {NoFile, TomlFile(<<>>)}
    /\ pc = "idle"
    /\ cmd = "none"
    /\ opts = NoOpts
    /\ exit = "none"
    /\ now = MaxRuns - 1
    /\ resp = NoResponse
    /\ params = NoParams
    /\ title = NoTitle
    /\ gitCalls = <<>>
    /\ startFile = NoFile
    /\ premerge = None
    /\ localRead = None
    /\ before = NoConf
    /\ answer = NoAnswer
    /\ confOverridden = {}
    /\ fileOverridden = {}
    /\ confFetched = FALSE
    /\ fileFetched = FALSE
    /\ staged = "unasked"
    /\ gitStatus = "none"

\* cmd/config.rs write_config applied to the config in memory
WriteConfig ==
    /\ pc = "idle"
    /\ HasConf
    /\ \E io \in WriteOutcomes :
          /\ file' = write_config(file, conf, io)
          /\ exit' = IF io = "written" THEN "ok" ELSE "error"
    /\ before' = conf
    /\ conf' = NoConf
    /\ cmd' = "write_config"
    /\ pc' = "written"
    /\ UNCHANGED <<localFile, opts, now, resp, params, title, gitCalls, startFile, premerge,
                   localRead, answer, confOverridden, fileOverridden, confFetched,
                   fileFetched, staged, gitStatus>>

\* cmd/config.rs read_config applied to the file write_config left
ReadConfig ==
    /\ pc = "written"
    /\ TrackLoad
    /\ startFile' = file
    /\ LET c == read_config(file, localFile) IN
          /\ conf' = IF c.ok THEN c.val ELSE NoConf
          /\ exit' = IF c.ok THEN "ok" ELSE c.err
    /\ cmd' = "read_config"
    /\ pc' = "done"
    /\ UNCHANGED <<file, localFile, opts, now, resp, params, title, gitCalls, before, answer,
                   fileOverridden, fileFetched, staged, gitStatus>>

RoundTripNext == WriteConfig \/ ReadConfig

RoundTripSpec == RoundTripInit /\ [][RoundTripNext]_vars

\* the file that a completed write_config left was read back
ReadBack == cmd = "read_config" /\ file.kind = "toml"

\* C15: serializing a Gitmoji or a GitmojiConfig to TOML and deserializing the
\* result succeeds and yields the original value, with last_update absent or
\* set and with empty or non-empty catalogs; so read_config, under an empty
\* local override, returns the config write_config wrote.
C15_RoundTrip ==
    /\ HasConf =>
          /\ \A i \in DOMAIN conf.gitmojis :
                /\ de_Gitmoji_ok(ser_entry(conf.gitmojis[i]))
                /\ de_Gitmoji(ser_entry(conf.gitmojis[i])) = conf.gitmojis[i]
          /\ de_GitmojiConfig(ser_GitmojiConfig(conf)) = Ok(conf)
    /\ ReadBack => (exit = "ok" /\ conf = before)

\* a config without last_update, with entries that lack name and description, came back
C15_Witness ==
    /\ ReadBack
    /\ exit = "ok"
    /\ ~before.last_update.some
    /\ before.gitmojis = <<G_sparkles>>
    /\ before.conventional_commit_emojis = <<C_fix>>
    /\ conf = before

\* a config with last_update set and full entries came back
C15_WitnessFull ==
    /\ ReadBack
    /\ before.last_update.some
    /\ before.gitmojis = <<G_art>>
    /\ conf = before

====
